---- MODULE Spec2Model ----
(***************************************************************************)
(* Model of the feature-dev chat Connector                                 *)
(* (src/amazonq/webview/ui/apps/featureDevChatConnector.ts).               *)
(*                                                                         *)
(* The Connector relays UI events to the extension host through the        *)
(* injected sendMessageToExtension function and dispatches envelopes       *)
(* received from the host to the callbacks captured at construction.       *)
(*                                                                         *)
(* JavaScript values are modelled as strings: the tokens "undefined" and   *)
(* "null" stand for the two nullish values, "" is the empty string, every  *)
(* other string is itself.  Arrays and objects that the code inspects are  *)
(* records with a tag field t.                                             *)
(***************************************************************************)
EXTENDS Integers, Sequences, FiniteSets, TLC

VARIABLES
    handlers,     \* names of the callback props that were supplied to the constructor
    sent,         \* envelopes passed to sendMessageToExtension, in order
    callbacks,    \* callback invocations made by the connector, in order
    calls,        \* outbound operations called by the UI layer, in order
    received,     \* envelopes handed to handleMessageReceive, in order
    results,      \* results[i]: state of the promise returned for received[i]
    promises,     \* state of each promise returned by requestGenerativeAIAnswer
    microtasks    \* continuations of suspended awaits, FIFO

vars == <<handlers, sent, callbacks, calls, received, results, promises, microtasks>>

----------------------------------------------------------------------------
(* Bounds *)

MaxCalls == 2      \* operations per behaviour of Spec
MaxDetail == 1     \* envelopes per behaviour of SpecDetail

----------------------------------------------------------------------------
(* JavaScript values *)

Undefined == "undefined"
Null == "null"

\* a || b: the fallback a falsy-skipping chain would take
CoalesceFalsy(a, b) == IF a = Undefined \/ a = Null \/ a = "" THEN b ELSE a

\* a ?? b
Coalesce(a, b) == IF a = Undefined \/ a = Null THEN b ELSE a

SYSTEM_PROMPT == "system-prompt"
CODE_RESULT == "code-result"

FollowUpText == "Please follow up with one of these"

\* the seven callback props read by the constructor
AllHandlers ==
    { "onChatAnswerReceived", "onWarning", "onError", "onAsyncEventProgress",
      "onUpdatePlaceholder", "onChatInputEnabled", "onUpdateAuthentication" }

----------------------------------------------------------------------------
(* Inputs of the UI layer *)

TabIDs == { "tab-1", "tab-2" }
Codes == { Undefined, "code" }
CodeReferences == { Undefined, "refs" }
Votes == { "upvote", "downvote" }

----------------------------------------------------------------------------
(* Outbound operations *)

\* this.sendMessageToExtension(message)
sendMessageToExtension(message) == sent' = Append(sent, message)

Called(op, tabID) == calls' = Append(calls, [op |-> op, tabID |-> tabID])

CanCall == Len(calls) + Len(received) < MaxCalls

Outbound == UNCHANGED <<handlers, callbacks, received, results, promises, microtasks>>

onCodeInsertToCursorPosition(tabID, code, codeReference) ==
    /\ CanCall
    /\ Called("onCodeInsertToCursorPosition", tabID)
    /\ sendMessageToExtension([ tabID |-> tabID,
                                code |-> code,
                                command |-> "insert_code_at_cursor_position",
                                codeReference |-> codeReference,
                                tabType |-> "featuredev" ])
    /\ Outbound

onCopyCodeToClipboard(tabID, code, codeReference) ==
    /\ CanCall
    /\ Called("onCopyCodeToClipboard", tabID)
    /\ sendMessageToExtension([ tabID |-> tabID,
                                code |-> code,
                                command |-> "code_was_copied_to_clipboard",
                                codeReference |-> codeReference,
                                tabType |-> "featuredev" ])
    /\ Outbound

onOpenDiff(tabID, leftPath, rightPath) ==
    /\ CanCall
    /\ Called("onOpenDiff", tabID)
    /\ sendMessageToExtension([ command |-> "open-diff",
                                tabID |-> tabID,
                                leftPath |-> leftPath,
                                rightPath |-> rightPath,
                                tabType |-> "featuredev" ])
    /\ Outbound

followUpClicked(tabID, followUp) ==
    /\ CanCall
    /\ Called("followUpClicked", tabID)
    /\ sendMessageToExtension([ command |-> "follow-up-was-clicked",
                                followUp |-> followUp,
                                tabID |-> tabID,
                                tabType |-> "featuredev" ])
    /\ Outbound

\* variant whose executor calls resolve after sending
requestGenerativeAIAnswerResolving(tabID, payload) ==
    /\ Len(calls) + Len(received) < MaxCalls
    /\ calls' = Append(calls, [op |-> "requestGenerativeAIAnswer", tabID |-> tabID])
    /\ sent' = Append(sent, [ tabID |-> tabID,
                              command |-> "chat-prompt",
                              chatMessage |-> payload.chatMessage,
                              tabType |-> "featuredev" ])
    /\ promises' = Append(promises, "fulfilled")
    /\ UNCHANGED <<handlers, callbacks, received, results, microtasks>>

\* new Promise((resolve, reject) => { send(...) }): the executor runs
\* synchronously and calls neither resolve nor reject.
requestGenerativeAIAnswer(tabID, payload) ==
    /\ CanCall
    /\ Called("requestGenerativeAIAnswer", tabID)
    /\ sendMessageToExtension([ tabID |-> tabID,
                                command |-> "chat-prompt",
                                chatMessage |-> payload.chatMessage,
                                tabType |-> "featuredev" ])
    /\ promises' = Append(promises, "pending")
    /\ UNCHANGED <<handlers, callbacks, received, results, microtasks>>

onStopChatResponse(tabID) ==
    /\ CanCall
    /\ Called("onStopChatResponse", tabID)
    /\ sendMessageToExtension([ tabID |-> tabID,
                                command |-> "stop-response" ])
    /\ Outbound

onTabOpen(tabID) ==
    /\ CanCall
    /\ Called("onTabOpen", tabID)
    /\ sendMessageToExtension([ tabID |-> tabID,
                                command |-> "new-tab-was-created",
                                tabType |-> "featuredev" ])
    /\ Outbound

onTabRemove(tabID) ==
    /\ CanCall
    /\ Called("onTabRemove", tabID)
    /\ sendMessageToExtension([ tabID |-> tabID,
                                command |-> "tab-was-removed",
                                tabType |-> "featuredev" ])
    /\ Outbound

\* variant that relays the feedback to the extension
sendFeedbackRelayed(tabId, feedbackPayload) ==
    /\ Len(calls) + Len(received) < MaxCalls
    /\ calls' = Append(calls, [op |-> "sendFeedback", tabID |-> tabId])
    /\ sent' = Append(sent, [ tabID |-> tabId,
                              command |-> "send-feedback",
                              feedbackPayload |-> feedbackPayload,
                              tabType |-> "featuredev" ])
    /\ UNCHANGED <<handlers, callbacks, received, results, promises, microtasks>>

\* // TODO implement telemetry
sendFeedback(tabId, feedbackPayload) ==
    /\ CanCall
    /\ Called("sendFeedback", tabId)
    /\ UNCHANGED sent
    /\ Outbound

onChatItemVoted(tabId, messageId, vote) ==
    /\ CanCall
    /\ Called("onChatItemVoted", tabId)
    /\ sendMessageToExtension([ tabID |-> tabId,
                                messageId |-> messageId,
                                vote |-> vote,
                                command |-> "chat-item-voted",
                                tabType |-> "featuredev" ])
    /\ Outbound

----------------------------------------------------------------------------
(* Inbound envelopes *)

\* messageData.followUps: absent, null, or an array
FollowUpsUndefined == [t |-> "undefined", v |-> <<>>]
FollowUpsNull == [t |-> "null", v |-> <<>>]
FollowUpsArray(items) == [t |-> "array", v |-> items]

\* an envelope none of whose payload fields is set
EmptyEnvelope(type) ==
    [ type |-> type, tabID |-> Undefined, message |-> Undefined, title |-> Undefined,
      messageType |-> Undefined, messageID |-> Undefined, triggerID |-> Undefined,
      conversationID |-> Undefined, canBeVoted |-> Undefined,
      followUps |-> FollowUpsUndefined, filePaths |-> Undefined,
      inProgress |-> Undefined, newPlaceholder |-> Undefined, enabled |-> Undefined,
      featureDevEnabled |-> Undefined ]

\* an envelope all of whose payload fields are set
FullEnvelope(type, tabID) ==
    [ type |-> type, tabID |-> tabID, message |-> "msg", title |-> "title",
      messageType |-> "answer", messageID |-> "A", triggerID |-> "B",
      conversationID |-> "C", canBeVoted |-> "true",
      followUps |-> FollowUpsArray(<<"f1">>), filePaths |-> "paths",
      inProgress |-> "true", newPlaceholder |-> "placeholder", enabled |-> "false",
      featureDevEnabled |-> "true" ]

MessageTypes ==
    { "errorMessage", "showInvalidTokenNotification", "chatMessage", "filePathMessage",
      "asyncEventProgressMessage", "updatePlaceholderMessage", "chatInputEnabledMessage",
      "authenticationUpdateMessage" }

UnknownType == "someFutureMessage"

\* envelopes delivered in Spec
Envelopes ==
    { FullEnvelope(type, tabID) : type \in MessageTypes \cup {UnknownType}, tabID \in TabIDs }
    \cup { [FullEnvelope("chatMessage", "tab-1") EXCEPT !.followUps = f, !.messageType = mt] :
             f \in {FollowUpsUndefined, FollowUpsNull, FollowUpsArray(<<>>)},
             mt \in {"answer", SYSTEM_PROMPT} }
    \cup { [FullEnvelope("chatMessage", "tab-2") EXCEPT !.messageType = SYSTEM_PROMPT] }

Optional(v) == { Undefined, Null, v }
OptionalString(v) == { Undefined, Null, "", v }

\* envelopes delivered in SpecDetail: every payload field the handler of the
\* type reads is absent, null or set, independently of the others
DetailEnvelopes ==
    { [EmptyEnvelope("chatMessage") EXCEPT !.tabID = "tab-1", !.messageType = mt,
          !.message = msg, !.messageID = mid, !.triggerID = tid, !.followUps = f,
          !.conversationID = "C", !.canBeVoted = "true"] :
        mt \in {"answer", SYSTEM_PROMPT}, msg \in {Null, "msg"},
        mid \in OptionalString("A"), tid \in OptionalString("B"),
        f \in {FollowUpsUndefined, FollowUpsNull, FollowUpsArray(<<>>),
               FollowUpsArray(<<"f1", "f2">>)} }
    \cup
    { [EmptyEnvelope("filePathMessage") EXCEPT !.tabID = "tab-1", !.filePaths = fp,
          !.messageID = mid, !.triggerID = tid, !.conversationID = cid] :
        fp \in {Undefined, "paths"}, mid \in OptionalString("A"),
        tid \in OptionalString("B"), cid \in {Undefined, "", "C"} }
    \cup
    { [EmptyEnvelope(type) EXCEPT !.tabID = tab, !.message = msg, !.title = title] :
        type \in {"errorMessage", "showInvalidTokenNotification"},
        tab \in {Undefined, "tab-1"}, msg \in Optional("msg"), title \in Optional("title") }
    \cup
    { [EmptyEnvelope("asyncEventProgressMessage") EXCEPT !.tabID = "tab-1",
          !.inProgress = ip, !.message = msg] :
        ip \in Optional("true"), msg \in Optional("msg") }
    \cup
    { [EmptyEnvelope("updatePlaceholderMessage") EXCEPT !.tabID = "tab-1",
          !.newPlaceholder = ph] : ph \in Optional("placeholder") }
    \cup
    { [EmptyEnvelope("chatInputEnabledMessage") EXCEPT !.tabID = "tab-1",
          !.enabled = en] : en \in Optional("false") }
    \cup
    { [EmptyEnvelope("authenticationUpdateMessage") EXCEPT !.featureDevEnabled = fe] :
        fe \in Optional("true") }
    \cup
    { EmptyEnvelope(UnknownType) }

----------------------------------------------------------------------------
(* Inbound operation *)

FollowUpUndefined == [t |-> "undefined", text |-> "", options |-> <<>>]
FollowUpObject(text, options) == [t |-> "object", text |-> text, options |-> options]

Invocation(name, env, args) == [name |-> name, env |-> env, args |-> args]

\* variant with an optional call, name?.(...): an absent prop is skipped
CallOptional(h, name, env, args) ==
    IF name \in h
        THEN [cbs |-> <<[name |-> name, env |-> env, args |-> args]>>, outcome |-> "fulfilled"]
        ELSE [cbs |-> <<>>, outcome |-> "fulfilled"]

\* A call of the callback prop `name`: calling a prop that was not supplied
\* (undefined) throws a TypeError.
Call(h, name, env, args) ==
    IF name \in h
        THEN [cbs |-> <<Invocation(name, env, args)>>, outcome |-> "fulfilled"]
        ELSE [cbs |-> <<>>, outcome |-> "rejected"]

\* variant that tests followUps.length >= 0 and so attaches an empty follow-up
processChatMessageEmptyFollowUp(h, messageData, env) ==
    IF "onChatAnswerReceived" \in h
        THEN IF messageData.followUps.t = "null"
                 THEN [cbs |-> <<>>, outcome |-> "rejected"]
                 ELSE LET answer ==
                          [ type |-> messageData.messageType,
                            body |-> IF messageData.message \in {Undefined, Null}
                                         THEN Undefined ELSE messageData.message,
                            messageId |->
                                IF messageData.messageID \notin {Undefined, Null}
                                    THEN messageData.messageID
                                ELSE IF messageData.triggerID \notin {Undefined, Null}
                                    THEN messageData.triggerID
                                ELSE "",
                            relatedContent |-> Undefined,
                            canBeVoted |-> messageData.canBeVoted,
                            followUp |->
                                IF messageData.followUps.t # "undefined"
                                   /\ Len(messageData.followUps.v) >= 0
                                    THEN [t |-> "object",
                                          text |-> IF messageData.messageType = SYSTEM_PROMPT
                                                       THEN ""
                                                       ELSE FollowUpText,
                                          options |-> messageData.followUps.v]
                                    ELSE [t |-> "undefined", text |-> "", options |-> <<>>] ]
                      IN [cbs |-> <<[name |-> "onChatAnswerReceived", env |-> env,
                                     args |-> <<messageData.tabID, answer>>]>>,
                          outcome |-> "fulfilled"]
        ELSE [cbs |-> <<>>, outcome |-> "fulfilled"]

\* private processChatMessage = async (messageData) => ...
\* outcome is the state of the promise the async function returns.
processChatMessage(h, messageData, env) ==
    IF "onChatAnswerReceived" \in h
        THEN IF messageData.followUps.t = "null"
                 \* null !== undefined, then null.length throws a TypeError
                 THEN [cbs |-> <<>>, outcome |-> "rejected"]
                 ELSE LET answer ==
                          [ type |-> messageData.messageType,
                            body |-> Coalesce(messageData.message, Undefined),
                            messageId |-> Coalesce(messageData.messageID,
                                              Coalesce(messageData.triggerID, "")),
                            relatedContent |-> Undefined,
                            canBeVoted |-> messageData.canBeVoted,
                            followUp |->
                                IF messageData.followUps.t # "undefined"
                                   /\ Len(messageData.followUps.v) > 0
                                    THEN FollowUpObject(
                                             IF messageData.messageType = SYSTEM_PROMPT
                                                 THEN ""
                                                 ELSE FollowUpText,
                                             messageData.followUps.v)
                                    ELSE FollowUpUndefined ]
                      IN Call(h, "onChatAnswerReceived", env, <<messageData.tabID, answer>>)
        ELSE [cbs |-> <<>>, outcome |-> "fulfilled"]

\* variant whose chain leaves triggerID out
processFilePathMessageNoTrigger(h, messageData, env) ==
    IF "onChatAnswerReceived" \in h
        THEN LET answer ==
                 [ type |-> CODE_RESULT,
                   body |-> messageData.filePaths,
                   relatedContent |-> Undefined,
                   followUp |-> [t |-> "undefined", text |-> "", options |-> <<>>],
                   canBeVoted |-> "true",
                   messageId |-> IF messageData.messageID \notin {Undefined, Null}
                                     THEN messageData.messageID
                                     ELSE messageData.conversationID ]
             IN [cbs |-> <<[name |-> "onChatAnswerReceived", env |-> env,
                            args |-> <<messageData.tabID, answer>>]>>,
                 outcome |-> "fulfilled"]
        ELSE [cbs |-> <<>>, outcome |-> "fulfilled"]

\* private processFilePathMessage = async (messageData) => ...
processFilePathMessage(h, messageData, env) ==
    IF "onChatAnswerReceived" \in h
        THEN LET answer ==
                 [ type |-> CODE_RESULT,
                   body |-> messageData.filePaths,
                   relatedContent |-> Undefined,
                   followUp |-> FollowUpUndefined,
                   canBeVoted |-> "true",
                   messageId |-> Coalesce(messageData.messageID,
                                     Coalesce(messageData.triggerID,
                                         messageData.conversationID)) ]
             IN Call(h, "onChatAnswerReceived", env, <<messageData.tabID, answer>>)
        ELSE [cbs |-> <<>>, outcome |-> "fulfilled"]

\* A synchronous branch of handleMessageReceive: the callback is called and
\* the function returns, which settles the returned promise.
Sync(r) == [cbs |-> r.cbs, result |-> r.outcome, tasks |-> <<>>]

\* variant in which the helper suspends before it calls the callback, so
\* that the call is part of the continuation
AwaitDeferred(r, env) ==
    [cbs |-> <<>>, result |-> "pending",
     tasks |-> << [env |-> env, outcome |-> r.outcome, cbs |-> r.cbs] >>]

\* `await helper(messageData)`: the helper runs synchronously up to its end,
\* handleMessageReceive is suspended on the promise the helper returned, and
\* its continuation (the `return`) runs as a microtask.
Await(r, env) ==
    [cbs |-> r.cbs, result |-> "pending",
     tasks |-> << [env |-> env, outcome |-> r.outcome, cbs |-> <<>>] >>]

\* The body of handleMessageReceive up to the point where it hands control
\* back to its caller.
Dispatch(h, messageData, env) ==
    IF messageData.type = "errorMessage"
        THEN Sync(Call(h, "onError", env,
                       <<messageData.tabID, messageData.message, messageData.title>>))
    ELSE IF messageData.type = "showInvalidTokenNotification"
        THEN Sync(Call(h, "onWarning", env,
                       <<messageData.tabID, messageData.message, messageData.title>>))
    ELSE IF messageData.type = "chatMessage"
        THEN Await(processChatMessage(h, messageData, env), env)
    ELSE IF messageData.type = "filePathMessage"
        THEN Await(processFilePathMessage(h, messageData, env), env)
    ELSE IF messageData.type = "asyncEventProgressMessage"
        THEN Sync(Call(h, "onAsyncEventProgress", env,
                       <<messageData.tabID, messageData.inProgress,
                         Coalesce(messageData.message, Undefined)>>))
    ELSE IF messageData.type = "updatePlaceholderMessage"
        THEN Sync(Call(h, "onUpdatePlaceholder", env,
                       <<messageData.tabID, messageData.newPlaceholder>>))
    ELSE IF messageData.type = "chatInputEnabledMessage"
        THEN Sync(Call(h, "onChatInputEnabled", env,
                       <<messageData.tabID, messageData.enabled>>))
    ELSE IF messageData.type = "authenticationUpdateMessage"
        THEN Sync(Call(h, "onUpdateAuthentication", env,
                       <<messageData.featureDevEnabled>>))
    ELSE [cbs |-> <<>>, result |-> "fulfilled", tasks |-> <<>>]

Deliver(messageData) ==
    LET env == Len(received) + 1
        d == Dispatch(handlers, messageData, env)
    IN /\ received' = Append(received, messageData)
       /\ callbacks' = callbacks \o d.cbs
       /\ results' = Append(results, d.result)
       /\ microtasks' = microtasks \o d.tasks
       /\ UNCHANGED <<handlers, sent, calls, promises>>

handleMessageReceive(messageData) ==
    /\ CanCall
    /\ Deliver(messageData)

\* The JavaScript engine runs the oldest queued continuation: the statements
\* after the await, then the return that settles the promise.
RunMicrotask ==
    /\ microtasks # <<>>
    /\ LET task == Head(microtasks)
       IN /\ callbacks' = callbacks \o task.cbs
          /\ results' = [results EXCEPT ![task.env] = task.outcome]
          /\ microtasks' = Tail(microtasks)
    /\ UNCHANGED <<handlers, sent, calls, received, promises>>

----------------------------------------------------------------------------
(* Specifications *)

\* constructor(props): the callback props are captured once
constructor(props) ==
    /\ handlers = props
    /\ sent = <<>>
    /\ callbacks = <<>>
    /\ calls = <<>>
    /\ received = <<>>
    /\ results = <<>>
    /\ promises = <<>>
    /\ microtasks = <<>>

\* every callback supplied, or exactly one left out
Init == \E props \in {AllHandlers} \cup { AllHandlers \ {name} : name \in AllHandlers } :
            constructor(props)

InsertCode ==
    \E tabID \in TabIDs, code \in Codes, codeReference \in CodeReferences :
        onCodeInsertToCursorPosition(tabID, code, codeReference)

CopyCode ==
    \E tabID \in TabIDs, code \in Codes, codeReference \in CodeReferences :
        onCopyCodeToClipboard(tabID, code, codeReference)

OpenDiff == \E tabID \in TabIDs : onOpenDiff(tabID, "left", "right")

FollowUp == \E tabID \in TabIDs : followUpClicked(tabID, "f1")

RequestAnswer == \E tabID \in TabIDs : requestGenerativeAIAnswer(tabID, [chatMessage |-> "prompt"])

StopResponse == \E tabID \in TabIDs : onStopChatResponse(tabID)

TabOpen == \E tabID \in TabIDs : onTabOpen(tabID)

TabRemove == \E tabID \in TabIDs : onTabRemove(tabID)

Feedback == \E tabId \in TabIDs : sendFeedback(tabId, "feedback")

Vote == \E tabId \in TabIDs, vote \in Votes : onChatItemVoted(tabId, "A", vote)

Receive == \E messageData \in Envelopes : handleMessageReceive(messageData)

Next ==
    \/ InsertCode
    \/ CopyCode
    \/ OpenDiff
    \/ FollowUp
    \/ RequestAnswer
    \/ StopResponse
    \/ TabOpen
    \/ TabRemove
    \/ Feedback
    \/ Vote
    \/ Receive
    \/ RunMicrotask

Spec == Init /\ [][Next]_vars

\* SpecDetail delivers envelopes with partially populated payloads to a
\* connector with every callback, or every callback but onChatAnswerReceived.
InitDetail ==
    \E props \in {AllHandlers, AllHandlers \ {"onChatAnswerReceived"}} : constructor(props)

ReceiveDetail ==
    \E messageData \in DetailEnvelopes :
        /\ Len(received) < MaxDetail
        /\ Deliver(messageData)

NextDetail ==
    \/ ReceiveDetail
    \/ RunMicrotask

SpecDetail == InitDetail /\ [][NextDetail]_vars

----------------------------------------------------------------------------
(* Vocabulary of the properties *)

Present(v) == v # Undefined /\ v # Null
NonEmpty(v) == Present(v) /\ v # ""

\* the outbound calls that are expected to emit an envelope
Emitting == SelectSeq(calls, LAMBDA c : c.op # "sendFeedback")

CommandTag(op) ==
    CASE op = "onCodeInsertToCursorPosition" -> "insert_code_at_cursor_position"
      [] op = "onCopyCodeToClipboard" -> "code_was_copied_to_clipboard"
      [] op = "onOpenDiff" -> "open-diff"
      [] op = "followUpClicked" -> "follow-up-was-clicked"
      [] op = "requestGenerativeAIAnswer" -> "chat-prompt"
      [] op = "onStopChatResponse" -> "stop-response"
      [] op = "onTabOpen" -> "new-tab-was-created"
      [] op = "onTabRemove" -> "tab-was-removed"
      [] op = "onChatItemVoted" -> "chat-item-voted"
      [] OTHER -> "none"

\* the callback slot an envelope type is documented to reach
Slot(type) ==
    CASE type = "errorMessage" -> "onError"
      [] type = "showInvalidTokenNotification" -> "onWarning"
      [] type = "chatMessage" -> "onChatAnswerReceived"
      [] type = "filePathMessage" -> "onChatAnswerReceived"
      [] type = "asyncEventProgressMessage" -> "onAsyncEventProgress"
      [] type = "updatePlaceholderMessage" -> "onUpdatePlaceholder"
      [] type = "chatInputEnabledMessage" -> "onChatInputEnabled"
      [] type = "authenticationUpdateMessage" -> "onUpdateAuthentication"
      [] OTHER -> "none"

\* the callback invocations made for the i-th received envelope
CallbacksOf(log, i) == SelectSeq(log, LAMBDA c : c.env = i)

\* the message id of the documented fallback chain on absent fields
DocumentedId(m, last) ==
    IF Present(m.messageID) THEN m.messageID
    ELSE IF Present(m.triggerID) THEN m.triggerID
    ELSE last

DocumentedFollowUp(m) ==
    IF m.followUps.t = "array" /\ m.followUps.v # <<>>
        THEN [t |-> "object",
              text |-> IF m.messageType = SYSTEM_PROMPT THEN "" ELSE FollowUpText,
              options |-> m.followUps.v]
        ELSE [t |-> "undefined", text |-> "", options |-> <<>>]

\* the arguments each envelope type is documented to pass to its callback
DocumentedArgs(m) ==
    CASE m.type \in {"errorMessage", "showInvalidTokenNotification"} ->
             <<m.tabID, m.message, m.title>>
      [] m.type = "chatMessage" ->
             <<m.tabID,
               [ type |-> m.messageType,
                 body |-> IF Present(m.message) THEN m.message ELSE Undefined,
                 messageId |-> DocumentedId(m, ""),
                 relatedContent |-> Undefined,
                 canBeVoted |-> m.canBeVoted,
                 followUp |-> DocumentedFollowUp(m) ]>>
      [] m.type = "filePathMessage" ->
             <<m.tabID,
               [ type |-> CODE_RESULT,
                 body |-> m.filePaths,
                 relatedContent |-> Undefined,
                 followUp |-> [t |-> "undefined", text |-> "", options |-> <<>>],
                 canBeVoted |-> "true",
                 messageId |-> DocumentedId(m, m.conversationID) ]>>
      [] m.type = "asyncEventProgressMessage" ->
             <<m.tabID, m.inProgress, IF Present(m.message) THEN m.message ELSE Undefined>>
      [] m.type = "updatePlaceholderMessage" -> <<m.tabID, m.newPlaceholder>>
      [] m.type = "chatInputEnabledMessage" -> <<m.tabID, m.enabled>>
      [] m.type = "authenticationUpdateMessage" -> <<m.featureDevEnabled>>
      [] OTHER -> <<>>

\* the chat items handed to onChatAnswerReceived for envelopes of a type
IsAnswerFor(c, type) ==
    /\ c.name = "onChatAnswerReceived"
    /\ received[c.env].type = type

CallbackIndex == 1..Len(callbacks)

----------------------------------------------------------------------------
(* Properties *)

\* C1: every envelope passed to sendMessageToExtension carries tabType
\* "featuredev" and the tab id the caller passed to the operation that
\* emitted it.
C1_EveryEnvelopeTagged ==
    \A i \in 1..Len(sent) :
        /\ "tabType" \in DOMAIN sent[i]
        /\ sent[i].tabType = "featuredev"
        /\ i <= Len(Emitting) => sent[i].tabID = Emitting[i].tabID

\* C2: with all handlers registered, an envelope of one of the eight types
\* makes handleMessageReceive invoke exactly its documented callback with
\* the documented arguments and no other; an envelope of any other type
\* invokes no callback and raises no fault.
C2_ExactlyTheDocumentedCallback ==
    handlers = AllHandlers =>
        \A i \in 1..Len(received) :
            LET m == received[i]
                cs == CallbacksOf(callbacks, i)
            IN IF m.type \in MessageTypes
                   THEN /\ Len(cs) = 1
                        /\ cs[1].name = Slot(m.type)
                        /\ cs[1].args = DocumentedArgs(m)
                   ELSE /\ cs = <<>>
                        /\ results[i] = "fulfilled"

\* C3: whichever of the seven callbacks was omitted at construction, an
\* envelope whose type maps to it is dropped: no callback is invoked and the
\* returned result does not fail.
C3_OmittedCallbackDrops ==
    \A i \in 1..Len(received) :
        LET m == received[i]
        IN (m.type \in MessageTypes /\ Slot(m.type) \notin handlers) =>
               /\ CallbacksOf(callbacks, i) = <<>>
               /\ results[i] # "rejected"

\* C3 (amended): an envelope whose callback was omitted invokes no callback;
\* the returned result is fulfilled, after one microtask, when the omitted
\* callback is onChatAnswerReceived, and is rejected for each of the other
\* six callbacks.
C3_OnlyAnswerCallbackIsOptional ==
    \A i \in 1..Len(received) :
        LET m == received[i]
        IN (m.type \in MessageTypes /\ Slot(m.type) \notin handlers) =>
               /\ CallbacksOf(callbacks, i) = <<>>
               /\ IF Slot(m.type) = "onChatAnswerReceived"
                      THEN /\ results[i] \in {"pending", "fulfilled"}
                           /\ \A k \in 1..Len(microtasks) :
                                  microtasks[k].env = i => microtasks[k].outcome = "fulfilled"
                      ELSE results[i] = "rejected"

C3_Witness ==
    /\ "onChatAnswerReceived" \notin handlers
    /\ Len(received) = 2
    /\ received[1].type = "chatMessage"
    /\ received[2].type = "filePathMessage"
    /\ results = <<"fulfilled", "fulfilled">>
    /\ callbacks = <<>>

\* C4: on absent (undefined or null) fields the message id of the chat item
\* is messageID when present, else triggerID when present, else "" for a
\* chatMessage and conversationID for a filePathMessage.
C4_MessageIdFallback ==
    \A j \in CallbackIndex :
        LET c == callbacks[j]
            m == received[c.env]
        IN /\ IsAnswerFor(c, "chatMessage") =>
                  c.args[2].messageId = DocumentedId(m, "")
           /\ IsAnswerFor(c, "filePathMessage") =>
                  c.args[2].messageId = DocumentedId(m, m.conversationID)

C4_Witness ==
    \E j \in CallbackIndex :
        /\ IsAnswerFor(callbacks[j], "filePathMessage")
        /\ received[callbacks[j].env].messageID = Undefined
        /\ received[callbacks[j].env].triggerID = Null
        /\ received[callbacks[j].env].conversationID = "C"
        /\ callbacks[j].args[2].messageId = "C"

\* C5: the message id is the first non-empty value of the chain: an empty
\* messageID is skipped in favour of a non-empty triggerID, an empty
\* triggerID in favour of a non-empty conversationID.
C5_FirstNonEmptyWins ==
    \A j \in CallbackIndex :
        LET c == callbacks[j]
            m == received[c.env]
            id == c.args[2].messageId
        IN (IsAnswerFor(c, "chatMessage") \/ IsAnswerFor(c, "filePathMessage")) =>
               /\ (~NonEmpty(m.messageID) /\ NonEmpty(m.triggerID)) => id = m.triggerID
               /\ (IsAnswerFor(c, "filePathMessage") /\ ~NonEmpty(m.messageID)
                      /\ ~NonEmpty(m.triggerID) /\ NonEmpty(m.conversationID)) =>
                      id = m.conversationID

\* C5 (amended): the message id is the first value of the chain that is
\* neither undefined nor null: a messageID that is the empty string is kept,
\* and so is an empty triggerID when messageID is undefined or null.
C5_FirstNonNullishWins ==
    \A j \in CallbackIndex :
        LET c == callbacks[j]
            m == received[c.env]
            id == c.args[2].messageId
        IN (IsAnswerFor(c, "chatMessage") \/ IsAnswerFor(c, "filePathMessage")) =>
               /\ m.messageID = "" => id = ""
               /\ (~Present(m.messageID) /\ m.triggerID = "") => id = ""
               /\ NonEmpty(m.messageID) => id = m.messageID
               /\ (~Present(m.messageID) /\ NonEmpty(m.triggerID)) => id = m.triggerID

C5_Witness ==
    \E j \in CallbackIndex :
        /\ IsAnswerFor(callbacks[j], "chatMessage")
        /\ received[callbacks[j].env].messageID = ""
        /\ received[callbacks[j].env].triggerID = "B"
        /\ callbacks[j].args[2].messageId = ""

\* C6: the chat item of a chatMessage has no followUp when followUps is
\* absent or empty; otherwise its followUp has the options of followUps and
\* the label "" for the system-prompt message type and "Please follow up
\* with one of these" for every other message type.
C6_FollowUp ==
    \A j \in CallbackIndex :
        LET c == callbacks[j]
            f == received[c.env].followUps
            followUp == c.args[2].followUp
        IN IsAnswerFor(c, "chatMessage") =>
               /\ (f.t = "undefined" \/ (f.t = "array" /\ Len(f.v) = 0)) =>
                      followUp.t = "undefined"
               /\ (f.t = "array" /\ Len(f.v) > 0) =>
                      /\ followUp.t = "object"
                      /\ followUp.options = f.v
                      /\ received[c.env].messageType = SYSTEM_PROMPT => followUp.text = ""
                      /\ received[c.env].messageType # SYSTEM_PROMPT =>
                             followUp.text = "Please follow up with one of these"

C6_Witness ==
    \E j \in CallbackIndex :
        /\ IsAnswerFor(callbacks[j], "chatMessage")
        /\ received[callbacks[j].env].messageType = SYSTEM_PROMPT
        /\ Len(received[callbacks[j].env].followUps.v) = 2
        /\ callbacks[j].args[2].followUp.text = ""

\* C7: with all handlers registered, handleMessageReceive completes without
\* a fault on every envelope, whichever payload fields are missing or null.
C7_NoFault ==
    handlers = AllHandlers =>
        \A i \in 1..Len(received) : results[i] # "rejected"

\* C8: requestGenerativeAIAnswer passes exactly one chat-prompt envelope to
\* the send function and returns a pending promise, and no later operation
\* or envelope resolves or rejects that promise.
C8_AnswerNeverSettles ==
    LET requests == SelectSeq(calls, LAMBDA c : c.op = "requestGenerativeAIAnswer")
        prompts == SelectSeq(sent, LAMBDA e : e.command = "chat-prompt")
    IN /\ Len(prompts) = Len(requests)
       /\ Len(promises) = Len(requests)
       /\ \A i \in 1..Len(promises) : promises[i] = "pending"

C8_Witness ==
    /\ Len(calls) = 1
    /\ calls[1].op = "requestGenerativeAIAnswer"
    /\ promises = <<"pending">>
    /\ Len(received) = 1
    /\ received[1].type = "chatMessage"
    /\ results[1] = "fulfilled"

\* C9: the envelopes passed to the send function are one per outbound call
\* other than sendFeedback, in call order, each with the command tag of its
\* operation; sendFeedback and handleMessageReceive send nothing, and no
\* outbound operation invokes a callback.
C9_OneEnvelopePerOutboundCall ==
    /\ [](/\ Len(sent) = Len(Emitting)
          /\ \A i \in 1..Len(sent) : sent[i].command = CommandTag(Emitting[i].op))
    /\ [][/\ received' # received => sent' = sent
          /\ calls' # calls => callbacks' = callbacks]_vars

C9_Witness ==
    /\ Len(calls) = 2
    /\ calls[1].op = "sendFeedback"
    /\ calls[2].op = "onChatItemVoted"
    /\ Len(sent) = 1
    /\ sent[1].command = "chat-item-voted"

\* C10: the callback of an envelope is invoked before handleMessageReceive
\* hands control back, also through the asynchronous helpers: callbacks
\* occur in delivery order, and no callback of an envelope occurs after the
\* call for it has returned.
C10_CallbacksInDeliveryOrder ==
    /\ [](\A j, k \in CallbackIndex : j < k => callbacks[j].env < callbacks[k].env)
    /\ [][\A i \in 1..Len(received) :
              CallbacksOf(callbacks', i) = CallbacksOf(callbacks, i)]_vars

C10_Witness ==
    /\ Len(received) = 2
    /\ received[1].type = "chatMessage"
    /\ received[2].type = "filePathMessage"
    /\ Len(microtasks) = 2
    /\ results = <<"pending", "pending">>
    /\ Len(callbacks) = 2
    /\ callbacks[1].env = 1
    /\ callbacks[2].env = 2

====
